---------------------------- MODULE Spec2Model ----------------------------
(***************************************************************************)
(* Model of src/proj/src/App.jsx: the MapReduceDemo component.  The React  *)
(* state of the component, the local variables of the asynchronous         *)
(* function runMapReduce and the position of that function between its     *)
(* awaits are the variables; every stretch of code between two awaits, and *)
(* every promise settlement, is one action.                                *)
(*                                                                         *)
(* Strings.  A text is a finite sequence of pieces.  A piece is either the *)
(* white-space piece " " or a piece without white space ("a", "A",         *)
(* "hello", "constructor", ...).  A word is a sequence of non-white-space  *)
(* pieces: <<"a", "A">> is the word "aA" and <<"constructor">> is the word *)
(* "constructor"; <<>> is the empty string.                                *)
(*                                                                         *)
(* Values stored in a word-count object.  A value v >= 0 is the JavaScript *)
(* number v.  A value v < 0 is the string that (x || 0) + 1 yields when x  *)
(* is an object taken from the prototype chain: the text of that object    *)
(* followed by -v characters "1" ("function Object() { [native code] }1"   *)
(* is -1).                                                                 *)
(*                                                                         *)
(* Plain objects ({}), which the code uses as maps, are sequences of       *)
(* entries [key, value] in insertion order, which is the order of          *)
(* Object.entries and Object.keys for keys that are not array indices (no  *)
(* piece is a digit).  Own properties shadow Object.prototype.             *)
(***************************************************************************)
EXTENDS Integers, Sequences, FiniteSets, TLC

VARIABLES
    mounted,        \* whether the component is mounted (its last render returned)
    inputText,      \* useState: the text area's value
    numMappers,     \* useState: the number input's value
    isRunning,      \* useState
    chunks,         \* useState
    mapResults,     \* useState
    reduceResults,  \* useState
    finalCounts,    \* useState
    logs,           \* useState
    pc,             \* where runMapReduce stands
    textChunks,     \* runMapReduce's local
    mapPromises,    \* runMapReduce's local: one promise per chunk
    mapOutputs,     \* runMapReduce's local
    shuffled,       \* runMapReduce's local
    reducePromises  \* runMapReduce's local: one promise per key

vars == <<mounted, inputText, numMappers, isRunning, chunks, mapResults, reduceResults,
          finalCounts, logs, pc, textChunks, mapPromises, mapOutputs, shuffled,
          reducePromises>>

published == <<chunks, mapResults, reduceResults, finalCounts, logs>>
locals == <<textChunks, mapPromises, mapOutputs, shuffled, reducePromises>>

----------------------------------------------------------------------------
(* Bounds of the model *)

\* Longest text, in pieces, among the texts enumerated piece by piece.
MaxTextLen == 4
\* Most words in a text enumerated word by word.
MaxWords == 4
\* Largest mapper count enumerated besides the input element's max.
MaxMappers == 4
\* The same three bounds for the edits made between runs.
MaxEditLen == 2
MaxEditWords == 3
MaxEditMappers == 3

\* The number input's max attribute (not enforced on typed values).
HtmlMaxMappers == 10
\* useState(3)
DefaultMappers == 3
\* Math.min(numMappers, 3): the most mapper icons drawn
DrawnMappers == 3

----------------------------------------------------------------------------
(* Strings *)

WS == " "
IsSpace(p) == p = WS

\* The pieces of the texts enumerated piece by piece, and as whole words.
RawPieces == {WS, "a", "A"}
WordAtoms == {"a", "A", "b", "constructor", "__proto__"}
EditAtoms == {"a", "constructor"}

\* useState('hello world hello distributed systems mapreduce world')
DefaultText ==
    <<"hello", WS, "world", WS, "hello", WS, "distributed", WS, "systems", WS,
      "mapreduce", WS, "world">>

\* String.prototype.toLowerCase, piece by piece.
LowerPiece(p) == IF p = "A" THEN "a" ELSE p
toLowerCase(s) == [i \in 1..Len(s) |-> LowerPiece(s[i])]

\* String.prototype.trim: drops the leading and the trailing white space.
RECURSIVE TrimStart(_)
TrimStart(s) ==
    IF s # <<>> /\ IsSpace(Head(s)) THEN TrimStart(Tail(s)) ELSE s
RECURSIVE TrimEnd(_)
TrimEnd(s) ==
    IF s # <<>> /\ IsSpace(s[Len(s)]) THEN TrimEnd(SubSeq(s, 1, Len(s) - 1)) ELSE s
trim(s) == TrimEnd(TrimStart(s))

\* String.prototype.split(/\s+/): the pieces between the maximal runs of white
\* space, an empty string before a leading run and after a trailing one
\* included; "" splits into [""].
RECURSIVE SplitFrom(_, _, _, _)
SplitFrom(s, i, cur, acc) ==
    IF i > Len(s) THEN Append(acc, cur)
    ELSE IF IsSpace(s[i])
         THEN IF i > 1 /\ IsSpace(s[i - 1])
              THEN SplitFrom(s, i + 1, cur, acc)
              ELSE SplitFrom(s, i + 1, <<>>, Append(acc, cur))
         ELSE SplitFrom(s, i + 1, Append(cur, s[i]), acc)
splitWS(s) == SplitFrom(s, 1, <<>>, <<>>)

\* Array.prototype.join(' ')
RECURSIVE join(_)
join(words) ==
    IF words = <<>> THEN <<>>
    ELSE IF Len(words) = 1 THEN words[1]
    ELSE words[1] \o <<WS>> \o join(Tail(words))

\* Array.prototype.slice(start, end) with 0 <= start <= end <= length.
slice(arr, start, end) == SubSeq(arr, start + 1, end)

Min(a, b) == IF a < b THEN a ELSE b
\* Math.ceil(a / b) for a >= 0 and b >= 1.
CeilDiv(a, b) == (a + b - 1) \div b

----------------------------------------------------------------------------
(* Plain objects used as maps *)

\* The all-lower-case property names every plain object inherits from
\* Object.prototype; the value found under each is an object, hence truthy.
InheritedKeys == {<<"constructor">>, <<"__proto__">>}
ProtoKey == <<"__proto__">>

HasOwn(obj, k) == \E i \in 1..Len(obj) : obj[i].key = k
OwnIndex(obj, k) == CHOOSE i \in 1..Len(obj) : obj[i].key = k
OwnValue(obj, k) == obj[OwnIndex(obj, k)].value

\* obj[k] = v.  Object.prototype's __proto__ setter ignores a value that is
\* neither an object nor null, and creates no own property.
AssignProp(obj, k, v) ==
    IF k = ProtoKey THEN obj
    ELSE IF HasOwn(obj, k)
         THEN [obj EXCEPT ![OwnIndex(obj, k)].value = v]
         ELSE Append(obj, [key |-> k, value |-> v])

\* Object.keys(obj)
Keys(obj) == [i \in 1..Len(obj) |-> obj[i].key]

----------------------------------------------------------------------------
(* Master: splitTextIntoChunks *)

\* A variant that rounds the chunk size down: Math.floor(words.length / numChunks).
ChunkSizeFloor(wordCount, numChunks) ==
    IF numChunks >= 1 THEN wordCount \div numChunks ELSE 0

\* Math.ceil(words.length / numChunks).  For numChunks <= 0 the quotient is
\* Infinity, NaN or negative and the loop below never reads it.
ChunkSize(wordCount, numChunks) ==
    IF numChunks >= 1 THEN CeilDiv(wordCount, numChunks) ELSE 0

\* A variant without the test: a chunk is pushed for every i < numChunks.
ChunkAlwaysWanted(start, wordCount) == TRUE

\* if (start < words.length)
ChunkWanted(start, wordCount) == start < wordCount

\* for (let i = 0; i < numChunks; i++) { ... }
RECURSIVE SplitLoop(_, _, _, _, _)
SplitLoop(words, chunkSize, numChunks, i, result) ==
    IF ~(i < numChunks) THEN result
    ELSE LET start == i * chunkSize
             end == Min(start + chunkSize, Len(words))
         IN  SplitLoop(words, chunkSize, numChunks, i + 1,
                 IF ChunkWanted(start, Len(words))
                 THEN Append(result,
                          [id |-> i, text |-> join(slice(words, start, end))])
                 ELSE result)

splitTextIntoChunks(text, numChunks) ==
    LET words == splitWS(trim(text))
        chunkSize == ChunkSize(Len(words), numChunks)
    IN  SplitLoop(words, chunkSize, numChunks, 0, <<>>)

----------------------------------------------------------------------------
(* Mapper: mapFunction *)

\* (wordCount[word] || 0) + 1
NextCount(wordCount, word) ==
    IF HasOwn(wordCount, word)
    THEN LET v == OwnValue(wordCount, word)
         IN  IF v >= 0 THEN v + 1    \* a number (0 is falsy: 0 + 1)
             ELSE v - 1              \* a string: one more "1" appended
    ELSE IF word \in InheritedKeys
         THEN -1                     \* an inherited object, truthy: its text + "1"
         ELSE 1                      \* undefined || 0

\* words.forEach(word => { if (word) { wordCount[word] = ... } })
RECURSIVE CountWords(_, _, _)
CountWords(words, i, wordCount) ==
    IF i > Len(words) THEN wordCount
    ELSE CountWords(words, i + 1,
             IF words[i] # <<>>
             THEN AssignProp(wordCount, words[i], NextCount(wordCount, words[i]))
             ELSE wordCount)

\* The value mapFunction's promise resolves with.
mapFunction(chunk) ==
    [mapperId |-> chunk.id,
     counts |-> CountWords(splitWS(toLowerCase(chunk.text)), 1, <<>>)]

----------------------------------------------------------------------------
(* Master: shufflePhase *)

\* A variant that stores the pair as the key's whole list instead of pushing it.
PushValueReplace(grouped, word, mapperId, count) ==
    LET i == OwnIndex(grouped, word)
    IN  [grouped EXCEPT ![i].value = <<[mapperId |-> mapperId, count |-> count]>>]

\* grouped[word].push({ mapperId, count }) on an own array.
PushValue(grouped, word, mapperId, count) ==
    LET i == OwnIndex(grouped, word)
    IN  [grouped EXCEPT ![i].value =
             Append(@, [mapperId |-> mapperId, count |-> count])]

\* One [word, count] entry of one map output.  grouped[word] of a key that is
\* inherited and not own is an object without push: the call throws TypeError.
ShuffleEntry(acc, mapperId, word, count) ==
    IF acc.threw THEN acc
    ELSE IF HasOwn(acc.grouped, word)
         THEN [acc EXCEPT !.grouped = PushValue(acc.grouped, word, mapperId, count)]
         ELSE IF word \in InheritedKeys
              THEN [acc EXCEPT !.threw = TRUE]
              ELSE [acc EXCEPT !.grouped =
                        PushValue(AssignProp(acc.grouped, word, <<>>),
                                  word, mapperId, count)]

RECURSIVE ShuffleEntries(_, _, _, _)
ShuffleEntries(acc, mapperId, entries, j) ==
    IF j > Len(entries) THEN acc
    ELSE ShuffleEntries(
             ShuffleEntry(acc, mapperId, entries[j].key, entries[j].value),
             mapperId, entries, j + 1)

\* A variant whose loop stops one output short: i < mapOutputs.length - 1.
RECURSIVE ShuffleOutputsButLast(_, _, _)
ShuffleOutputsButLast(acc, outputs, i) ==
    IF i > Len(outputs) - 1 THEN acc
    ELSE ShuffleOutputsButLast(
             ShuffleEntries(acc, outputs[i].mapperId, outputs[i].counts, 1),
             outputs, i + 1)

RECURSIVE ShuffleOutputs(_, _, _)
ShuffleOutputs(acc, outputs, i) ==
    IF i > Len(outputs) THEN acc
    ELSE ShuffleOutputs(
             ShuffleEntries(acc, outputs[i].mapperId, outputs[i].counts, 1),
             outputs, i + 1)

\* [threw |-> whether the call threw, grouped |-> the object built (returned
\* when it did not throw)]
shufflePhase(outputs) ==
    ShuffleOutputs([threw |-> FALSE, grouped |-> <<>>], outputs, 1)

----------------------------------------------------------------------------
(* Reducer: reduceFunction *)

\* A variant that counts the contributions instead of adding them up:
\* values.reduce((sum, val) => sum + 1, 0).
SumCountsLength(values) == Len(values)

\* values.reduce((sum, val) => sum + val.count, 0) over numbers.
RECURSIVE SumCounts(_)
SumCounts(values) ==
    IF values = <<>> THEN 0
    ELSE SumCounts(SubSeq(values, 1, Len(values) - 1)) + values[Len(values)].count

\* `Mapper-${v.mapperId}`
MapperName(id) == [label |-> "Mapper-", id |-> id]

\* The value reduceFunction's promise resolves with.
reduceFunction(word, values) ==
    [word |-> word,
     count |-> SumCounts(values),
     sources |-> [i \in 1..Len(values) |-> MapperName(values[i].mapperId)]]

\* reduceOutputs.forEach(output => { final[output.word] = output.count; ... })
RECURSIVE CollectFinal(_, _, _)
CollectFinal(outputs, i, final) ==
    IF i > Len(outputs) THEN final
    ELSE CollectFinal(outputs, i + 1,
             AssignProp(final, outputs[i].word, outputs[i].count))

----------------------------------------------------------------------------
(* Event log *)

\* A log line without its time stamp: the message's fixed text and the values
\* interpolated into it (0 and <<>> where the message has none).
LogLine(msg, id, word, n) == [msg |-> msg, id |-> id, word |-> word, n |-> n]

\* A variant that puts the new line first: setLogs(prev => [line, ...prev]).
addLogFirst(prev, line) == <<line>> \o prev

\* setLogs(prev => [...prev, line])
addLog(prev, line) == Append(prev, line)

RECURSIVE addLogs(_, _)
addLogs(prev, lines) ==
    IF lines = <<>> THEN prev ELSE addLogs(addLog(prev, Head(lines)), Tail(lines))

MsgSplitting == "MASTER: Splitting input text into chunks..."
MsgCreated == "MASTER: Created ${n} chunks"
MsgSending == "MASTER: Sending chunks to mapper nodes..."
MsgMapperReceived == "MAPPER-${id}: Received chunk via HTTP"
MsgMapperCompleted == "MAPPER-${id}: Completed word count, sending results back"
MsgShuffling == "MASTER: Shuffling and grouping by keys..."
MsgGrouped == "MASTER: Grouped into ${n} unique words"
MsgDistributing == "MASTER: Distributing grouped data to reducer nodes..."
MsgReducerReceived == "REDUCER-${id}: Received word ${word} via HTTP"
MsgCollecting == "MASTER: Collecting final results from reducers..."
MsgReducerSent == "REDUCER: Sent final count for ${word}: ${n}"
MsgCompleted == "MASTER: MapReduce job completed successfully!"
MsgError == "ERROR: grouped[word].push is not a function"

----------------------------------------------------------------------------
(* Promises *)

Pending == [state |-> "pending", value |-> <<>>]
Fulfilled(v) == [state |-> "fulfilled", value |-> v]

\* A variant that hands the values over last promise first.
PromiseAllReversed(promises) ==
    [i \in 1..Len(promises) |-> promises[Len(promises) + 1 - i].value]

\* Promise.all resolves once every promise is fulfilled (of an empty array: at
\* once), with the values in the order of the array.
AllFulfilled(promises) ==
    \A i \in 1..Len(promises) : promises[i].state = "fulfilled"
PromiseAllValues(promises) == [i \in 1..Len(promises) |-> promises[i].value]

----------------------------------------------------------------------------
(* The component *)

\* [...Array(Math.min(numMappers, 3))] in the returned markup: Array(len) throws
\* RangeError for a negative length.  No error boundary surrounds the
\* component, so a render that throws unmounts it.
RenderThrows(n) == Min(n, DrawnMappers) < 0

\* A variant without the attribute: the inputs stay enabled during a run.
InputsNeverDisabled == FALSE

\* disabled={isRunning} of the text area and of the number input
InputsDisabled == isRunning
\* A variant that tests the text without trimming it: isRunning || !inputText.
RunDisabledUntrimmed == isRunning \/ inputText = <<>>

\* disabled={isRunning || !inputText.trim()} of the Run button
RunDisabled == isRunning \/ trim(inputText) = <<>>

NoLocals ==
    /\ textChunks = <<>>
    /\ mapPromises = <<>>
    /\ mapOutputs = <<>>
    /\ shuffled = <<>>
    /\ reducePromises = <<>>

Mounted(text, n) ==
    /\ mounted = TRUE
    /\ inputText = text
    /\ numMappers = n
    /\ isRunning = FALSE
    /\ chunks = <<>>
    /\ mapResults = <<>>
    /\ reduceResults = <<>>
    /\ finalCounts = <<>>
    /\ logs = <<>>
    /\ pc = "idle"
    /\ NoLocals

\* onChange of the text area
SetInputText(text) ==
    /\ mounted
    /\ ~InputsDisabled
    /\ inputText' = text
    /\ UNCHANGED <<mounted, numMappers, isRunning, published, pc, locals>>

\* onChange of the number input
SetNumMappers(n) ==
    /\ mounted
    /\ ~InputsDisabled
    /\ numMappers' = n
    /\ mounted' = ~RenderThrows(n)
    /\ UNCHANGED <<inputText, isRunning, published, pc, locals>>

\* A variant without the resets of lines 92-95: what the last run published
\* stays until the new run replaces it.
RunMapReduceKeep ==
    /\ mounted
    /\ ~RunDisabled
    /\ isRunning' = TRUE
    /\ textChunks' = splitTextIntoChunks(inputText, numMappers)
    /\ chunks' = textChunks'
    /\ logs' = addLogs(<<>>,
                  <<LogLine(MsgSplitting, 0, <<>>, 0),
                    LogLine(MsgCreated, 0, <<>>, Len(textChunks'))>>)
    /\ mapPromises' = <<>>
    /\ mapOutputs' = <<>>
    /\ shuffled' = <<>>
    /\ reducePromises' = <<>>
    /\ pc' = "split_wait"
    /\ UNCHANGED <<mounted, inputText, numMappers, mapResults, reduceResults,
                   finalCounts>>

\* onClick of the Run button: runMapReduce up to its first await.
RunMapReduce ==
    /\ mounted
    /\ ~RunDisabled
    /\ isRunning' = TRUE
    /\ textChunks' = splitTextIntoChunks(inputText, numMappers)
    /\ chunks' = textChunks'
    /\ mapResults' = <<>>
    /\ reduceResults' = <<>>
    /\ finalCounts' = <<>>
    /\ logs' = addLogs(<<>>,
                  <<LogLine(MsgSplitting, 0, <<>>, 0),
                    LogLine(MsgCreated, 0, <<>>, Len(textChunks'))>>)
    /\ mapPromises' = <<>>
    /\ mapOutputs' = <<>>
    /\ shuffled' = <<>>
    /\ reducePromises' = <<>>
    /\ pc' = "split_wait"
    /\ UNCHANGED <<mounted, inputText, numMappers>>

\* Step 2, from the first 800 ms timer to await Promise.all(mapPromises): every
\* map callback runs to the await inside mapFunction.
DispatchMappers ==
    /\ pc = "split_wait"
    /\ logs' = addLogs(addLog(logs, LogLine(MsgSending, 0, <<>>, 0)),
                  [i \in 1..Len(textChunks) |->
                      LogLine(MsgMapperReceived, textChunks[i].id, <<>>, 0)])
    /\ mapPromises' = [i \in 1..Len(textChunks) |-> Pending]
    /\ pc' = "map_wait"
    /\ UNCHANGED <<mounted, inputText, numMappers, isRunning, chunks, mapResults,
                   reduceResults, finalCounts, textChunks, mapOutputs, shuffled,
                   reducePromises>>

\* The delay of the i-th map task ends: mapFunction counts and returns.
MapTaskSettle(i) ==
    /\ pc = "map_wait"
    /\ i \in 1..Len(mapPromises)
    /\ mapPromises[i].state = "pending"
    /\ mapPromises' = [mapPromises EXCEPT ![i] = Fulfilled(mapFunction(textChunks[i]))]
    /\ UNCHANGED <<mounted, inputText, numMappers, isRunning, published, pc, textChunks,
                   mapOutputs, shuffled, reducePromises>>

\* A variant that goes on as soon as one map task has completed, with the
\* results of the tasks completed by then.
MapBatchResolvedEarly ==
    /\ pc = "map_wait"
    /\ \E i \in 1..Len(mapPromises) : mapPromises[i].state = "fulfilled"
    /\ mapOutputs' = PromiseAllValues(SelectSeq(mapPromises, LAMBDA p : p.state = "fulfilled"))
    /\ mapResults' = mapOutputs'
    /\ logs' = addLogs(logs,
                  [i \in 1..Len(mapOutputs') |->
                      LogLine(MsgMapperCompleted, mapOutputs'[i].mapperId, <<>>, 0)])
    /\ pc' = "mapped_wait"
    /\ UNCHANGED <<mounted, inputText, numMappers, isRunning, chunks, reduceResults,
                   finalCounts, textChunks, mapPromises, shuffled, reducePromises>>

\* Promise.all(mapPromises) resolves: to the second 800 ms timer.
MapBatchResolved ==
    /\ pc = "map_wait"
    /\ AllFulfilled(mapPromises)
    /\ mapOutputs' = PromiseAllValues(mapPromises)
    /\ mapResults' = mapOutputs'
    /\ logs' = addLogs(logs,
                  [i \in 1..Len(mapOutputs') |->
                      LogLine(MsgMapperCompleted, mapOutputs'[i].mapperId, <<>>, 0)])
    /\ pc' = "mapped_wait"
    /\ UNCHANGED <<mounted, inputText, numMappers, isRunning, chunks, reduceResults,
                   finalCounts, textChunks, mapPromises, shuffled, reducePromises>>

\* A variant whose catch block also withdraws what the run had published.
CatchFinallyReset(log) ==
    /\ logs' = addLog(log, LogLine(MsgError, 0, <<>>, 0))
    /\ isRunning' = FALSE
    /\ pc' = "failed"
    /\ chunks' = <<>>
    /\ mapResults' = <<>>
    /\ textChunks' = <<>>
    /\ mapPromises' = <<>>
    /\ mapOutputs' = <<>>
    /\ shuffled' = <<>>
    /\ reducePromises' = <<>>
    /\ UNCHANGED <<mounted, inputText, numMappers, reduceResults, finalCounts>>

\* A variant without the finally block: the catch block logs and the call ends.
CatchWithoutFinally(log) ==
    /\ logs' = addLog(log, LogLine(MsgError, 0, <<>>, 0))
    /\ pc' = "failed"
    /\ textChunks' = <<>>
    /\ mapPromises' = <<>>
    /\ mapOutputs' = <<>>
    /\ shuffled' = <<>>
    /\ reducePromises' = <<>>
    /\ UNCHANGED <<mounted, inputText, numMappers, isRunning, chunks, mapResults,
                   reduceResults, finalCounts>>

\* catch (error) { addLog(...) } finally { setIsRunning(false) }: the call ends.
CatchFinally(log) ==
    /\ logs' = addLog(log, LogLine(MsgError, 0, <<>>, 0))
    /\ isRunning' = FALSE
    /\ pc' = "failed"
    /\ textChunks' = <<>>
    /\ mapPromises' = <<>>
    /\ mapOutputs' = <<>>
    /\ shuffled' = <<>>
    /\ reducePromises' = <<>>
    /\ UNCHANGED <<mounted, inputText, numMappers, chunks, mapResults, reduceResults,
                   finalCounts>>

\* Step 3, from the second timer to the third, or to the catch block when
\* shufflePhase throws.
ShuffleStep ==
    /\ pc = "mapped_wait"
    /\ LET r == shufflePhase(mapOutputs)
           log == addLog(logs, LogLine(MsgShuffling, 0, <<>>, 0))
       IN  IF r.threw
           THEN CatchFinally(log)
           ELSE /\ shuffled' = r.grouped
                /\ logs' = addLog(log, LogLine(MsgGrouped, 0, <<>>, Len(Keys(r.grouped))))
                /\ pc' = "shuffled_wait"
                /\ UNCHANGED <<mounted, inputText, numMappers, isRunning, chunks,
                               mapResults, reduceResults, finalCounts, textChunks,
                               mapPromises, mapOutputs, reducePromises>>

\* Step 4, from the third timer to await Promise.all(reducePromises).
DispatchReducers ==
    /\ pc = "shuffled_wait"
    /\ logs' = addLogs(addLog(logs, LogLine(MsgDistributing, 0, <<>>, 0)),
                  [i \in 1..Len(shuffled) |->
                      LogLine(MsgReducerReceived, i - 1, shuffled[i].key, 0)])
    /\ reducePromises' = [i \in 1..Len(shuffled) |-> Pending]
    /\ pc' = "reduce_wait"
    /\ UNCHANGED <<mounted, inputText, numMappers, isRunning, chunks, mapResults,
                   reduceResults, finalCounts, textChunks, mapPromises,
                   mapOutputs, shuffled>>

\* The delay of the i-th reduce task ends: reduceFunction sums and returns.
ReduceTaskSettle(i) ==
    /\ pc = "reduce_wait"
    /\ i \in 1..Len(reducePromises)
    /\ reducePromises[i].state = "pending"
    /\ reducePromises' =
           [reducePromises EXCEPT
               ![i] = Fulfilled(reduceFunction(shuffled[i].key, shuffled[i].value))]
    /\ UNCHANGED <<mounted, inputText, numMappers, isRunning, published, pc, textChunks,
                   mapPromises, mapOutputs, shuffled>>

\* Promise.all(reducePromises) resolves: step 5 and the finally block.
ReduceBatchResolved ==
    /\ pc = "reduce_wait"
    /\ AllFulfilled(reducePromises)
    /\ LET reduceOutputs == PromiseAllValues(reducePromises)
       IN  /\ reduceResults' = reduceOutputs
           /\ finalCounts' = CollectFinal(reduceOutputs, 1, <<>>)
           /\ logs' = addLog(
                  addLogs(addLog(logs, LogLine(MsgCollecting, 0, <<>>, 0)),
                      [i \in 1..Len(reduceOutputs) |->
                          LogLine(MsgReducerSent, 0, reduceOutputs[i].word,
                                  reduceOutputs[i].count)]),
                  LogLine(MsgCompleted, 0, <<>>, 0))
    /\ isRunning' = FALSE
    /\ pc' = "done"
    /\ textChunks' = <<>>
    /\ mapPromises' = <<>>
    /\ mapOutputs' = <<>>
    /\ shuffled' = <<>>
    /\ reducePromises' = <<>>
    /\ UNCHANGED <<mounted, inputText, numMappers, chunks, mapResults>>

----------------------------------------------------------------------------
(* Inputs *)

SeqsUpTo(S, lo, hi) == UNION {[1..k -> S] : k \in lo..hi}
AsWords(atoms) == {<<a>> : a \in atoms}

\* Texts typed piece by piece and texts of single-spaced words.
RawTexts(maxLen) == SeqsUpTo(RawPieces, 0, maxLen)
WordTexts(atoms, maxWords) == {join(ws) : ws \in SeqsUpTo(AsWords(atoms), 1, maxWords)}

JobTexts == RawTexts(MaxTextLen) \cup WordTexts(WordAtoms, MaxWords) \cup {DefaultText}
JobMapperCounts == (0..MaxMappers) \cup {DefaultMappers, HtmlMaxMappers}

EditTexts == RawTexts(MaxEditLen) \cup WordTexts(EditAtoms, MaxEditWords) \cup {DefaultText}
EditMapperCounts == (-1..MaxEditMappers) \cup {DefaultMappers}

----------------------------------------------------------------------------
(* Specifications *)

\* The component as mounted, edited and run any number of times.
Init == Mounted(DefaultText, DefaultMappers)

RunNext ==
    \/ RunMapReduce
    \/ DispatchMappers
    \/ \E i \in 1..Len(mapPromises) : MapTaskSettle(i)
    \/ MapBatchResolved
    \/ ShuffleStep
    \/ DispatchReducers
    \/ \E i \in 1..Len(reducePromises) : ReduceTaskSettle(i)
    \/ ReduceBatchResolved

Next ==
    \/ RunNext
    \/ \E text \in EditTexts : SetInputText(text)
    \/ \E n \in EditMapperCounts : SetNumMappers(n)

Spec == Init /\ [][Next]_vars

\* The runs of one job: the inputs are typed before the first run and kept.
JobInit == \E text \in JobTexts, n \in JobMapperCounts : Mounted(text, n)

JobSpec == JobInit /\ [][RunNext]_vars

\* The steps of a call that has begun: each waits for a timer of
\* simulateNetworkDelay or for the promises of a batch, and every timer fires.
RunProgress ==
    \/ DispatchMappers
    \/ \E i \in 1..Len(mapPromises) : MapTaskSettle(i)
    \/ MapBatchResolved
    \/ ShuffleStep
    \/ DispatchReducers
    \/ \E i \in 1..Len(reducePromises) : ReduceTaskSettle(i)
    \/ ReduceBatchResolved

\* The runs of one job over typed inputs, with every timer firing in the end;
\* the user may stop clicking Run.
FairTexts == RawTexts(MaxEditLen) \cup WordTexts(EditAtoms, MaxEditWords)

FairInit ==
    \E text \in FairTexts, n \in EditMapperCounts :
        ~RenderThrows(n) /\ Mounted(text, n)

FairSpec == FairInit /\ [][RunNext]_vars /\ WF_vars(RunProgress)

----------------------------------------------------------------------------
(* What the claims speak of, stated without the program's own functions *)

\* The words of a text: its maximal runs of pieces that are not white space.
RECURSIVE Tokens(_)
Tokens(s) ==
    IF s = <<>> THEN <<>>
    ELSE IF s[1] = WS THEN Tokens(Tail(s))
    ELSE LET k == CHOOSE k \in 1..Len(s) :
                      /\ \A j \in 1..k : s[j] # WS
                      /\ k = Len(s) \/ s[k + 1] = WS
         IN  <<SubSeq(s, 1, k)>> \o Tokens(SubSeq(s, k + 1, Len(s)))

LowerTokens(s) ==
    LET t == Tokens(s)
    IN  [i \in 1..Len(t) |-> [j \in 1..Len(t[i]) |-> IF t[i][j] = "A" THEN "a" ELSE t[i][j]]]

\* The direct word count of a text: each distinct lower-cased word with its
\* number of occurrences.
DirectCount(s) ==
    LET t == LowerTokens(s)
    IN  [w \in {t[i] : i \in 1..Len(t)} |-> Cardinality({i \in 1..Len(t) : t[i] = w})]

\* An object read as a mapping, provided no key occurs twice.
DistinctKeys(obj) == \A i, j \in 1..Len(obj) : obj[i].key = obj[j].key => i = j
AsMapping(obj) ==
    [k \in {obj[i].key : i \in 1..Len(obj)} |->
        (obj[CHOOSE i \in 1..Len(obj) : obj[i].key = k]).value]

RECURSIVE SumValues(_)
SumValues(obj) == IF obj = <<>> THEN 0 ELSE Head(obj).value + SumValues(Tail(obj))

RECURSIVE Flatten(_)
Flatten(seqs) == IF seqs = <<>> THEN <<>> ELSE Head(seqs) \o Flatten(Tail(seqs))

IsPrefix(a, b) == Len(a) <= Len(b) /\ SubSeq(b, 1, Len(a)) = a

Blank(s) == \A i \in 1..Len(s) : s[i] = WS

\* Every chunk has a map task and every map task has completed; the same for
\* the keys of the shuffle's result and the reduce tasks.
EveryMapTaskDone ==
    /\ Len(mapPromises) = Len(textChunks)
    /\ \A i \in 1..Len(mapPromises) : mapPromises[i].state = "fulfilled"
EveryReduceTaskDone ==
    /\ Len(reducePromises) = Len(shuffled)
    /\ \A i \in 1..Len(reducePromises) : reducePromises[i].state = "fulfilled"

\* The job status the position of runMapReduce stands for.
Status ==
    CASE pc = "idle" -> "None"
      [] pc = "split_wait" -> "Pending"
      [] pc = "map_wait" -> "Mapping"
      [] pc = "mapped_wait" -> "Shuffling"
      [] pc \in {"shuffled_wait", "reduce_wait"} -> "Reducing"
      [] pc = "done" -> "Done"
      [] pc = "failed" -> "Failed"

----------------------------------------------------------------------------
(* Claims *)

\* C1: a run with n >= 1 mappers that completes publishes FinalCounts equal to
\* the direct word count of the input (every distinct lower-cased word with its
\* number of occurrences and no other key), whatever n and whatever the order
\* in which the tasks completed.
C1_FinalCountsAreDirectCount ==
    (pc = "done" /\ numMappers >= 1) =>
        /\ DistinctKeys(finalCounts)
        /\ AsMapping(finalCounts) = DirectCount(inputText)

\* C2: the values of the published FinalCounts of a completed run with n >= 1
\* sum to the number of white-space-delimited words of the input.
C2_FinalCountsSumToWordCount ==
    (pc = "done" /\ numMappers >= 1) =>
        SumValues(finalCounts) = Len(Tokens(inputText))

\* C3: for n >= 1 the words of the chunks, taken in chunk order, are the words
\* of the input in their order: none lost, duplicated, reordered or shared.
C3_ChunksReproduceWords ==
    (pc # "idle" /\ numMappers >= 1) =>
        Flatten([i \in 1..Len(chunks) |-> Tokens(chunks[i].text)]) = Tokens(inputText)

C3_Witness ==
    /\ pc = "split_wait"
    /\ numMappers = 2
    /\ Len(Tokens(inputText)) = 3
    /\ Len(chunks) = 2

\* C4: for W >= 1 words and n >= 1, every chunk but the last holds ceil(W / n)
\* words and the last from 1 to ceil(W / n); the ids are 0, 1, 2, ...; there
\* are at most n chunks; and n > W gives exactly W chunks of one word.
C4_ChunkShape ==
    LET W == Len(Tokens(inputText))
        n == numMappers
        size == CHOOSE c \in 1..W : c * n >= W /\ (c - 1) * n < W
        wordsIn(i) == Len(Tokens(chunks[i].text))
    IN  (pc # "idle" /\ n >= 1 /\ W >= 1) =>
            /\ Len(chunks) >= 1
            /\ Len(chunks) <= n
            /\ \A i \in 1..Len(chunks) :
                   /\ chunks[i].id = i - 1
                   /\ wordsIn(i) >= 1
                   /\ wordsIn(i) <= size
                   /\ i < Len(chunks) => wordsIn(i) = size
            /\ n > W => /\ Len(chunks) = W
                        /\ \A i \in 1..Len(chunks) : wordsIn(i) = 1

C4_Witness ==
    /\ pc = "split_wait"
    /\ numMappers = HtmlMaxMappers
    /\ Len(Tokens(inputText)) = 4
    /\ Len(chunks) = 4

\* C5: the shuffle step and every reduce task start only after every map task
\* of the run has completed, and FinalCounts is assembled only after every
\* reduce task has completed.
C5_PhaseBarrier ==
    [][/\ (pc = "map_wait" /\ pc' # "map_wait") => EveryMapTaskDone
       /\ (pc' \in {"mapped_wait", "shuffled_wait", "reduce_wait"}
             \/ shuffled' # <<>> \/ reducePromises' # <<>>) => EveryMapTaskDone'
       /\ (pc = "reduce_wait" /\ pc' # "reduce_wait") => EveryReduceTaskDone
       /\ (finalCounts' # finalCounts /\ finalCounts' # <<>>) => EveryReduceTaskDone
      ]_vars

C5_Witness ==
    /\ pc = "reduce_wait"
    /\ Len(mapPromises) >= 2
    /\ \E i, j \in 1..Len(reducePromises) :
           /\ reducePromises[i].state = "fulfilled"
           /\ reducePromises[j].state = "pending"

\* C6: the status moves only along Pending -> Mapping -> Shuffling -> Reducing
\* -> Done, or to Failed from Mapping or Reducing; Done and Failed are left
\* only by the submission of a new job.
C6_StatusMachine ==
    [][\/ Status' = Status
       \/ <<Status, Status'>> \in
              {<<"None", "Pending">>, <<"Pending", "Mapping">>,
               <<"Mapping", "Shuffling">>, <<"Shuffling", "Reducing">>,
               <<"Reducing", "Done">>, <<"Mapping", "Failed">>,
               <<"Reducing", "Failed">>, <<"Done", "Pending">>,
               <<"Failed", "Pending">>}
      ]_vars

\* C8: a failed job has no FinalCounts, and the chunks and MapResults that
\* were published when it failed stay published.
C8_FailedKeepsPartialState ==
    [][pc' = "failed" =>
          /\ finalCounts' = <<>>
          /\ chunks # <<>> /\ chunks' = chunks
          /\ mapResults # <<>> /\ mapResults' = mapResults
      ]_vars

C8_Witness ==
    /\ pc = "failed"
    /\ Len(chunks) >= 2
    /\ Len(mapResults) = Len(chunks)

\* C9 as claimed: over any sequence of operations, starting further runs
\* included, the log only grows at its end.
C9_LogAppendOnly == [][IsPrefix(logs, logs')]_vars

\* C9 as amended: every step but the start of a run keeps the log's entries,
\* in order, and only appends; the start of a run replaces the log by the two
\* first entries of the new run.
C9_LogAppendOnlyWithinRun ==
    [][IF pc' = "split_wait"
       THEN /\ Len(logs') = 2
            /\ logs'[1].msg = MsgSplitting
            /\ logs'[2].msg = MsgCreated
       ELSE IsPrefix(logs, logs')
      ]_vars

C9_Witness ==
    /\ pc = "done"
    /\ inputText # DefaultText
    /\ Len(logs) > 4
    /\ logs[1].msg = MsgSplitting
    /\ logs[Len(logs)].msg = MsgCompleted

\* C10: while the input text is empty or all white space no run starts: nothing
\* is running, and no chunk, result, final count or log entry is published.
C10_BlankInputStartsNothing ==
    [][Blank(inputText) =>
          /\ ~isRunning /\ ~isRunning'
          /\ pc' = pc
          /\ published' = published
      ]_vars

C10_Witness ==
    /\ inputText = <<WS>>
    /\ ~isRunning
    /\ pc = "done"

\* C11: with a mapper count n <= 0 no run ends by reporting a successfully
\* completed job (the weakest part of the claim, which also says that no job
\* is created and no phase is run).
C11_NoSuccessWithoutMappers ==
    numMappers <= 0 => ~(pc = "done" /\ logs[Len(logs)].msg = MsgCompleted)

\* The count an object holds for a key: 0 when it has none.
CountIn(obj, w) ==
    IF \E i \in 1..Len(obj) : obj[i].key = w
    THEN (obj[CHOOSE i \in 1..Len(obj) : obj[i].key = w]).value
    ELSE 0

RECURSIVE SumOver(_, _)
SumOver(seq, n) == IF n = 0 THEN 0 ELSE SumOver(seq, n - 1) + seq[n]

KeysOf(obj) == {obj[i].key : i \in 1..Len(obj)}

\* The group returned for the map outputs: same keys, and under every key the
\* pair of every output that holds the key, once, with its count.
Conserves(group, outputs) ==
    /\ DistinctKeys(group)
    /\ KeysOf(group) = UNION {KeysOf(outputs[i].counts) : i \in 1..Len(outputs)}
    /\ \A k \in 1..Len(group) :
           LET w == group[k].key
               pairs == group[k].value
           IN  /\ SumOver([j \in 1..Len(pairs) |-> pairs[j].count], Len(pairs))
                    = SumOver([i \in 1..Len(outputs) |-> CountIn(outputs[i].counts, w)],
                              Len(outputs))
               /\ Len(pairs) = Cardinality({i \in 1..Len(outputs) : w \in KeysOf(outputs[i].counts)})
               /\ \A i \in 1..Len(outputs) :
                      w \in KeysOf(outputs[i].counts) =>
                          Cardinality({j \in 1..Len(pairs) :
                                          pairs[j] = [mapperId |-> outputs[i].mapperId,
                                                      count |-> CountIn(outputs[i].counts, w)]}) = 1

\* C13: the group shufflePhase returns conserves every contribution: for every
\* word the counts under it sum to the word's counts over the map outputs, the
\* keys are the union of the outputs' keys, and every (mapperId, count) pair
\* is there once and unaltered.
C13_ShuffleConserves ==
    pc \in {"shuffled_wait", "reduce_wait"} => Conserves(shuffled, mapOutputs)

C13_Witness ==
    /\ pc = "shuffled_wait"
    /\ Len(mapOutputs) >= 2
    /\ \E k \in 1..Len(shuffled) :
           /\ Len(shuffled[k].value) >= 2
           /\ shuffled[k].value[1].count >= 2

\* The orders in which the elements of a set can be listed.
RECURSIVE Orders(_)
Orders(S) ==
    IF S = {} THEN {<<>>}
    ELSE UNION {{<<x>> \o o : o \in Orders(S \ {x})} : x \in S}

Permuted(seq, order) == [i \in 1..Len(seq) |-> seq[order[i]]]

\* Two groups with the same keys and, under each key, the same pairs in some order.
SamePairs(g, h) ==
    /\ KeysOf(g) = KeysOf(h)
    /\ \A k \in 1..Len(g) :
           LET a == g[k].value
               b == CountIn(h, g[k].key)
           IN  /\ Len(a) = Len(b)
               /\ {a[j] : j \in 1..Len(a)} = {b[j] : j \in 1..Len(b)}

\* C14 as claimed: shufflePhase returns the same mapping (each word with its
\* list of pairs) for every permutation of the list of map outputs.
C14_ShufflePermutationInvariant ==
    pc = "mapped_wait" =>
        \A order \in Orders(1..Len(mapOutputs)) :
            LET r == shufflePhase(mapOutputs)
                q == shufflePhase(Permuted(mapOutputs, order))
            IN  /\ q.threw = r.threw
                /\ ~r.threw => /\ DistinctKeys(q.grouped)
                               /\ AsMapping(q.grouped) = AsMapping(r.grouped)

\* C14 as amended: for every permutation of the list of map outputs
\* shufflePhase throws for both lists or for neither, and the two groups have
\* the same keys and under each key the same (mapperId, count) pairs, up to
\* the order of the pairs in the key's list.
C14_ShufflePermutationSamePairs ==
    pc = "mapped_wait" =>
        \A order \in Orders(1..Len(mapOutputs)) :
            LET r == shufflePhase(mapOutputs)
                q == shufflePhase(Permuted(mapOutputs, order))
            IN  /\ q.threw = r.threw
                /\ ~r.threw => /\ DistinctKeys(q.grouped)
                               /\ DistinctKeys(r.grouped)
                               /\ SamePairs(q.grouped, r.grouped)

C14_Witness ==
    /\ pc = "mapped_wait"
    /\ Len(mapOutputs) >= 3
    /\ ~shufflePhase(mapOutputs).threw
    /\ \E i, j \in 1..Len(mapOutputs) :
           /\ i # j
           /\ KeysOf(mapOutputs[i].counts) \cap KeysOf(mapOutputs[j].counts) # {}

\* The step on which Promise.all(mapPromises) resolves, and the one on which
\* Promise.all(reducePromises) does.
MapBatchStep == pc = "map_wait" /\ pc' = "mapped_wait"
ReduceBatchStep == pc = "reduce_wait" /\ pc' = "done"

MapResultsInChunkOrder ==
    /\ Len(mapResults') = Len(chunks')
    /\ \A i \in 1..Len(chunks') : mapResults'[i].mapperId = chunks'[i].id

ReduceResultsInKeyOrder ==
    /\ Len(reduceResults') = Len(Keys(shuffled))
    /\ \A i \in 1..Len(reduceResults') : reduceResults'[i].word = Keys(shuffled)[i]

\* C15: in whatever order the tasks of a batch complete, the map results
\* published have one entry per chunk, the i-th with the i-th chunk's id, and
\* the reduce results published have their i-th entry for the i-th key of the
\* shuffle's group.
C15_ResultsInSubmissionOrder ==
    [][/\ MapBatchStep => MapResultsInChunkOrder
       /\ ReduceBatchStep => ReduceResultsInKeyOrder]_vars

C15_Witness ==
    /\ pc = "done"
    /\ Len(chunks) >= 3
    /\ Len(mapResults) = Len(chunks)
    /\ Len(reduceResults) >= 2
    /\ reduceResults[1].word # reduceResults[2].word

\* The step on which the reduce tasks are built.
ReduceDispatchStep == pc = "shuffled_wait" /\ pc' = "reduce_wait"

OneTaskPerKey ==
    /\ DistinctKeys(shuffled)
    /\ Len(reducePromises') = Cardinality(KeysOf(shuffled))

ReduceResultsSumTheGroup ==
    \A i \in 1..Len(shuffled) :
        LET v == shuffled[i].value
            r == reduceResults'[i]
        IN  /\ r.word = shuffled[i].key
            /\ r.count = SumOver([j \in 1..Len(v) |-> v[j].count], Len(v))
            /\ r.sources = [j \in 1..Len(v) |-> MapperName(v[j].mapperId)]

FinalCountsAreReduceCounts ==
    /\ DistinctKeys(finalCounts')
    /\ KeysOf(finalCounts') = {reduceResults'[i].word : i \in 1..Len(reduceResults')}
    /\ \A i \in 1..Len(reduceResults') :
           CountIn(finalCounts', reduceResults'[i].word) = reduceResults'[i].count

\* C16: one reduce task is built per distinct key of the shuffle's group; each
\* reduce result's count is the sum of the counts grouped under its word and
\* its sources name the contributing mappers in the group's order; the final
\* counts have exactly one entry per distinct word, equal to that word's
\* reduce result count.
C16_ReducePerKeySumsAndFinal ==
    [][/\ ReduceDispatchStep => OneTaskPerKey
       /\ ReduceBatchStep => /\ Len(reduceResults') = Len(shuffled)
                             /\ ReduceResultsSumTheGroup
                             /\ FinalCountsAreReduceCounts]_vars

C16_Witness ==
    /\ pc = "done"
    /\ Len(reduceResults) >= 2
    /\ \E i \in 1..Len(reduceResults) :
           /\ Len(reduceResults[i].sources) >= 2
           /\ reduceResults[i].count > Len(reduceResults[i].sources)
           /\ CountIn(finalCounts, reduceResults[i].word) = reduceResults[i].count

\* A word without an upper-case piece.
IsLower(w) == \A j \in 1..Len(w) : w[j] # "A"

\* C17: every map result has non-empty lower-cased words as keys and counts of
\* at least 1, bears the id of the chunk it was computed from, and its counts
\* sum to the number of words of that chunk.
C17_MapResultInvariants ==
    pc = "mapped_wait" =>
        \A i \in 1..Len(mapOutputs) :
            LET r == mapOutputs[i]
            IN  /\ r.mapperId = textChunks[i].id
                /\ \A k \in 1..Len(r.counts) :
                       /\ r.counts[k].key # <<>>
                       /\ IsLower(r.counts[k].key)
                       /\ r.counts[k].value >= 1
                /\ SumValues(r.counts) = Len(Tokens(textChunks[i].text))

\* The positions of a runMapReduce call that has begun and not ended.
RunningPositions ==
    {"split_wait", "map_wait", "mapped_wait", "shuffled_wait", "reduce_wait"}

\* A step that begins a run.
RunStartStep == pc' = "split_wait" /\ pc # "split_wait"

NoStartNoEditWhileRunning ==
    isRunning => /\ ~RunStartStep
                 /\ inputText' = inputText
                 /\ numMappers' = numMappers

\* C18: at most one run is in progress: isRunning is true exactly while the one
\* runMapReduce call is between its start and its end, and while it is true
\* the Run button, the text area and the number input are disabled, no run
\* starts and the input text and the mapper count do not change.
C18_SingleRunInputsFrozen ==
    /\ [](isRunning <=> pc \in RunningPositions)
    /\ [](isRunning => InputsDisabled /\ RunDisabled)
    /\ [][NoStartNoEditWhileRunning]_vars

C18_Witness ==
    /\ isRunning
    /\ pc = "reduce_wait"
    /\ inputText # DefaultText
    /\ numMappers # DefaultMappers
    /\ InputsDisabled
    /\ RunDisabled

ErrorEntries == {i \in 1..Len(logs') : logs'[i].msg = MsgError}

\* The step on which a run ends.
RunEndStep == isRunning /\ ~isRunning'

EndsAfterLastEntry ==
    \/ /\ pc' = "done"
       /\ logs'[Len(logs')].msg = MsgCompleted
       /\ ErrorEntries = {}
    \/ /\ pc' = "failed"
       /\ logs'[Len(logs')].msg = MsgError
       /\ Cardinality(ErrorEntries) = 1

\* C19: every run that has started ends (its timers and task promises
\* settling in the end), and the step that ends it sets isRunning to false
\* with the log ending in the 'completed successfully' entry and holding no
\* ERROR entry, or ending in the run's one and only ERROR entry.
C19_RunEndsNotRunning ==
    /\ isRunning ~> ~isRunning
    /\ [][RunEndStep => EndsAfterLastEntry]_vars
    /\ [][isRunning' = isRunning \/ RunEndStep \/ RunStartStep]_vars

C19_WitnessFailed ==
    /\ pc = "failed"
    /\ ~isRunning
    /\ logs[Len(logs)].msg = MsgError

C19_Witness ==
    /\ pc = "done"
    /\ ~isRunning
    /\ logs[Len(logs)].msg = MsgCompleted
    /\ Len(chunks) >= 2
    /\ reduceResults # <<>>

PhaseConsistent ==
    /\ finalCounts # <<>> => reduceResults # <<>>
    /\ reduceResults # <<>> => mapResults # <<>>
    /\ mapResults # <<>> => chunks # <<>>

\* A run's start replaces the chunks by those of the input as it is then and
\* withdraws the results of the run before.
StartClears ==
    /\ chunks' = splitTextIntoChunks(inputText, numMappers)
    /\ mapResults' = <<>>
    /\ reduceResults' = <<>>
    /\ finalCounts' = <<>>

\* What a run publishes after its start is computed from what the same run
\* published before: map results from its chunks, reduce results from its map
\* results, final counts from its reduce results.
PublishedFromThisRun ==
    /\ chunks' = chunks
    /\ \/ mapResults' = mapResults
       \/ /\ mapResults = <<>>
          /\ mapResults' = [i \in 1..Len(chunks) |-> mapFunction(chunks[i])]
    /\ \/ reduceResults' = reduceResults /\ finalCounts' = finalCounts
       \/ /\ reduceResults = <<>> /\ finalCounts = <<>>
          /\ mapResults' = mapResults
          /\ LET g == shufflePhase(mapResults).grouped
             IN  reduceResults' =
                     [i \in 1..Len(g) |-> reduceFunction(g[i].key, g[i].value)]
          /\ finalCounts' = CollectFinal(reduceResults', 1, <<>>)

OneRunPublishes ==
    IF RunStartStep THEN StartClears
    ELSE IF isRunning THEN PublishedFromThisRun
    ELSE UNCHANGED published

\* C20: what is published never mixes two runs and is phase-consistent: the
\* start of a run withdraws the map results, the reduce results and the final
\* counts and replaces the chunks by the new run's; everything published
\* afterwards derives from that run's chunks; and in every state non-empty
\* final counts imply non-empty reduce results, these non-empty map results,
\* and these non-empty chunks.
C20_PublishedOfOneRun ==
    /\ [](PhaseConsistent)
    /\ [](isRunning => chunks = splitTextIntoChunks(inputText, numMappers))
    /\ [][OneRunPublishes]_vars

C20_Witness ==
    /\ pc = "map_wait"
    /\ inputText # DefaultText
    /\ chunks # <<>>
    /\ chunks = splitTextIntoChunks(inputText, numMappers)
    /\ mapResults = <<>>
    /\ finalCounts = <<>>

C20_WitnessDone ==
    /\ pc = "done"
    /\ finalCounts # <<>>
    /\ chunks # splitTextIntoChunks(inputText, numMappers)

=============================================================================
